---- MODULE Spec2Model ----
(***************************************************************************)
(* Model of analysis/benchmark.py: the comparative micro-benchmark of      *)
(* nested-mapping containers.  One process imports the optional libraries, *)
(* builds one long-lived instance per available library at module level,   *)
(* then, per registry entry, times Init, Read(K), Read(D), Write(K),       *)
(* Write(D) through run() and prints one table row.                        *)
(*                                                                         *)
(* Elapsed times are fixed-point numbers in units of 1e-5 second, so that  *)
(* the ".5f" rendering of format_res is exact.                             *)
(***************************************************************************)
EXTENDS Integers, Sequences, FiniteSets, TLC

VARIABLES
    avail,      \* registry names whose backing library imported (lines 11-63)
    fault,      \* the misbehaving library of this environment, or NoFault
    tick,       \* timer reading for one repetition of a statement
    pc,         \* "build" | "loop" | "done" | "crashed"
    idx,        \* position of the for loop in libs (line 135)
    step,       \* position inside the loop body: 0 guard, 1..5 OpOrder, 6 print
    instances,  \* the module-level dict instances: name -> object cell
    leaf,       \* heap: value of level1.level2.level3 in each object
    results,    \* the results dict of the current row (lines 139-145)
    rows,       \* the table rows printed so far (lines 175-182)
    last,       \* the most recent call of run(): statement, outcome, return
    runNo,      \* "first" or "second" execution of the script
    report1     \* the rows printed by the first execution

vars == <<avail, fault, tick, pc, idx, step, instances, leaf, results, rows,
          last, runNo, report1>>

----------------------------------------------------------------------------
(* Bounds *)

MaxTick == 1

----------------------------------------------------------------------------
(* Program constants and data *)

ITER_N == 100000

Scale == 100000

None == -1

Absent == "<absent>"

libs ==
    << [name |-> "dict",       key |-> TRUE,  dot |-> FALSE],
       [name |-> "Lattix",     key |-> TRUE,  dot |-> TRUE],
       [name |-> "EasyDict",   key |-> TRUE,  dot |-> TRUE],
       [name |-> "Addict",     key |-> TRUE,  dot |-> TRUE],
       [name |-> "Box",        key |-> TRUE,  dot |-> TRUE],
       [name |-> "TreeDict",   key |-> TRUE,  dot |-> FALSE],
       [name |-> "Attrs",      key |-> FALSE, dot |-> TRUE],
       [name |-> "DottedDict", key |-> TRUE,  dot |-> TRUE] >>

Names == { libs[i].name : i \in 1..Len(libs) }

Optional == Names \ {"dict"}

BuildOrder ==
    << "dict", "Lattix", "EasyDict", "Addict", "Box", "TreeDict", "Attrs",
       "DottedDict" >>

OpOrderWriteFirst == << "init", "write_k", "write_d", "read_k", "read_d" >>

OpOrder == << "init", "read_k", "read_d", "write_k", "write_d" >>

Ops == { "init", "read_k", "read_d", "write_k", "write_d" }

Cells == Names \cup {"raw_data"}

EmptyResults ==
    [init |-> None, read_k |-> None, read_d |-> None, write_k |-> None,
     write_d |-> None]

NoCall ==
    [name |-> "", op |-> "", outcome |-> "", raised |-> FALSE, ret |-> None,
     seen |-> 0]

----------------------------------------------------------------------------
(* Environment: which library misbehaves, and how *)

NoFault == [lib |-> "", site |-> "", kind |-> ""]

Faults ==
    {NoFault}
    \cup { [lib |-> l, site |-> "ctor", kind |-> "exc"] : l \in Optional }
    \cup [lib : Optional, site : Ops, kind : {"exc", "base"}]


----------------------------------------------------------------------------
(* Pure functions *)

\* The last n decimal digits of v, with leading zeros.
RECURSIVE Digits(_, _)
Digits(v, n) ==
    IF n = 0 THEN "" ELSE Digits(v \div 10, n - 1) \o ToString(v % 10)

format_resTruthy(val) ==
    IF val # None /\ val # 0
    THEN ToString(val \div Scale) \o "." \o Digits(val % Scale, 5)
    ELSE "N/A"

\* f"{val:.5f}" if val is not None else "N/A"
format_res(val) ==
    IF val # None
    THEN ToString(val \div Scale) \o "." \o Digits(val % Scale, 5)
    ELSE "N/A"

\* t.timeit(number): total time of `number` repetitions.  t is the cost of
\* one repetition in units of 1e-10 s, the result is in units of 1e-5 s.
timeit(t, number) == (t * number) \div Scale

runNoCatch(outcome, t) ==
    IF outcome = "ok"
    THEN [raised |-> FALSE, ret |-> timeit(t, ITER_N)]
    ELSE [raised |-> TRUE, ret |-> None]

runFalsy(outcome, t) ==
    IF outcome = "ok"
    THEN [raised |-> FALSE,
          ret |-> IF timeit(t, ITER_N) = 0 THEN None ELSE timeit(t, ITER_N)]
    ELSE IF outcome = "exc"
    THEN [raised |-> FALSE, ret |-> None]
    ELSE [raised |-> TRUE, ret |-> None]

\* run(stmt, setup, globals).  outcome is what compiling and executing the
\* statement does: "ok", "exc" (raises an instance of Exception) or "base"
\* (raises a BaseException outside Exception: KeyboardInterrupt, SystemExit,
\* GeneratorExit).  `except Exception` catches only the former.
run(outcome, t) ==
    IF outcome = "ok"
    THEN [raised |-> FALSE, ret |-> timeit(t, ITER_N)]
    ELSE IF outcome = "exc"
    THEN [raised |-> FALSE, ret |-> None]
    ELSE [raised |-> TRUE, ret |-> None]

\* The object a library constructor returns: a new object of its own, which
\* shares no nested node with raw_data nor with another instance.
NewObject(n) == n

\* The leaf value of the instance built at module level for n.
BuiltLeaf(n, doc) == IF n \in {"dict", "Attrs"} THEN 100 ELSE doc

\* Does the module-level statement that builds n's instance raise?
BuildFails(n) ==
    \/ n = "Attrs" /\ "Attrs" \notin avail
    \/ n # "dict" /\ n \in avail /\ fault.lib = n /\ fault.site = "ctor"

\* `if X:` guard of the module-level statement of n.
BuildGuard(n) == n = "dict" \/ n \in avail

FirstFail ==
    IF \E i \in 1..Len(BuildOrder) : BuildFails(BuildOrder[i])
    THEN CHOOSE i \in 1..Len(BuildOrder) :
            /\ BuildFails(BuildOrder[i])
            /\ \A j \in 1..(i - 1) : ~BuildFails(BuildOrder[j])
    ELSE Len(BuildOrder) + 1

BuiltBefore(n, k) ==
    \E j \in 1..(k - 1) : BuildOrder[j] = n /\ BuildGuard(n)

LookupObjFirst(insts, n) == insts["dict"]

\* obj = instances.get(name)
LookupObj(insts, n) == insts[n]

\* negation of the `continue` guard of the loop
Active(insts, n) == ~(insts[n] = Absent /\ n # "dict" /\ n # "Attrs")

SupportsAny(l, op) == TRUE

\* the capability flag that guards op (support_key / support_dot)
Supports(l, op) ==
    IF op \in {"read_k", "write_k"} THEN l.key
    ELSE IF op \in {"read_d", "write_d"} THEN l.dot
    ELSE TRUE

\* the value a write statement stores
WriteValue(op) == IF op = "write_k" THEN 200 ELSE 300

\* What the timed statement of operation op of registry entry n does when
\* executed against object obj.
StmtOutcome(n, op, obj) ==
    IF fault.lib = n /\ (fault.site = op \/ (op = "init" /\ fault.site = "ctor"))
    THEN fault.kind
    ELSE IF \/ obj = NewObject("dict") /\ op \in {"read_d", "write_d"}
            \/ obj = NewObject("Attrs") /\ op \in {"read_k", "write_k"}
    THEN "exc"
    ELSE "ok"

RowCellsSwapped(res) ==
    << format_res(res.init), format_res(res.read_d), format_res(res.read_k),
       format_res(res.write_k), format_res(res.write_d) >>

\* the five cells of the printed row
RowCells(res) ==
    << format_res(res.init), format_res(res.read_k), format_res(res.read_d),
       format_res(res.write_k), format_res(res.write_d) >>

----------------------------------------------------------------------------
(* State machine *)

Fresh ==
    /\ pc = "build"
    /\ idx = 1
    /\ step = 0
    /\ instances = [n \in Names |-> Absent]
    /\ leaf = [c \in Cells |-> IF c = "raw_data" THEN 100 ELSE 0]
    /\ results = EmptyResults
    /\ rows = << >>
    /\ last = NoCall

Init ==
    /\ avail \in SUBSET Optional
    /\ fault \in { f \in Faults : f = NoFault \/ f.lib \in avail }
    /\ tick \in 0..MaxTick
    /\ runNo = "first"
    /\ report1 = << >>
    /\ Fresh

\* Module level, lines 92-110: build the long-lived instances.  An exception
\* here is not caught by anything and ends the process.
Build ==
    /\ pc = "build"
    /\ LET k == FirstFail IN
        /\ instances' = [n \in Names |->
                            IF BuiltBefore(n, k) THEN NewObject(n) ELSE Absent]
        /\ leaf' = [c \in Cells |->
                       IF \E n \in Names : BuiltBefore(n, k) /\ NewObject(n) = c
                       THEN BuiltLeaf(c, leaf["raw_data"])
                       ELSE leaf[c]]
        /\ pc' = IF k <= Len(BuildOrder) THEN "crashed" ELSE "loop"
    /\ UNCHANGED <<avail, fault, tick, idx, step, results, rows, last, runNo,
                   report1>>

\* line 135: the next registry entry, or the end of the script
Advance ==
    /\ idx' = idx + 1
    /\ step' = 0
    /\ pc' = IF idx = Len(libs) THEN "done" ELSE "loop"

\* lines 136-137: continue
Skip ==
    /\ pc = "loop" /\ step = 0
    /\ ~Active(instances, libs[idx].name)
    /\ Advance
    /\ UNCHANGED <<avail, fault, tick, instances, leaf, results, rows, last,
                   runNo, report1>>

\* lines 136-145: the entry is active, results starts with five None
StartRow ==
    /\ pc = "loop" /\ step = 0
    /\ Active(instances, libs[idx].name)
    /\ results' = EmptyResults
    /\ step' = 1
    /\ UNCHANGED <<avail, fault, tick, pc, idx, instances, leaf, rows, last,
                   runNo, report1>>

\* One of the five numbered measurements of the loop body, lines 147-173.
Measure(op) ==
    /\ pc = "loop" /\ step \in 1..Len(OpOrder) /\ OpOrder[step] = op
    /\ LET l == libs[idx]
           obj == LookupObj(instances, l.name)
       IN
         IF op # "init" /\ ~(Supports(l, op) /\ obj # Absent)
         THEN /\ step' = step + 1
              /\ UNCHANGED <<pc, leaf, results, last>>
         ELSE LET out == StmtOutcome(l.name, op, obj)
                  r == run(out, tick)
              IN
                /\ last' = [name |-> l.name, op |-> op, outcome |-> out,
                            raised |-> r.raised, ret |-> r.ret,
                            seen |-> IF op \in {"read_k", "read_d"} /\ out = "ok"
                                     THEN leaf[obj] ELSE 0]
                /\ leaf' = IF op \in {"write_k", "write_d"} /\ out = "ok"
                           THEN [leaf EXCEPT ![obj] = WriteValue(op)]
                           ELSE leaf
                /\ IF r.raised
                   THEN /\ pc' = "crashed"
                        /\ UNCHANGED <<step, results>>
                   ELSE /\ results' = [results EXCEPT ![op] = r.ret]
                        /\ step' = step + 1
                        /\ pc' = pc
    /\ UNCHANGED <<avail, fault, tick, idx, instances, rows, runNo, report1>>

TimeInit == Measure("init")

ReadKey == Measure("read_k")

ReadDot == Measure("read_d")

WriteKey == Measure("write_k")

WriteDot == Measure("write_d")

\* lines 175-182: print the row
PrintRow ==
    /\ pc = "loop" /\ step = Len(OpOrder) + 1
    /\ rows' = Append(rows, [name |-> libs[idx].name, cells |-> RowCells(results)])
    /\ Advance
    /\ UNCHANGED <<avail, fault, tick, instances, leaf, results, last, runNo,
                   report1>>

\* The script is executed a second time, as a new process in the same
\* environment: module state starts afresh, the timer readings are new.
Rerun ==
    /\ pc \in {"done", "crashed"} /\ runNo = "first"
    /\ runNo' = "second"
    /\ report1' = rows
    /\ tick' \in 0..MaxTick
    /\ pc' = "build"
    /\ idx' = 1
    /\ step' = 0
    /\ instances' = [n \in Names |-> Absent]
    /\ leaf' = [c \in Cells |-> IF c = "raw_data" THEN 100 ELSE 0]
    /\ results' = EmptyResults
    /\ rows' = << >>
    /\ last' = NoCall
    /\ UNCHANGED <<avail, fault>>

Next ==
    \/ Build
    \/ Skip
    \/ StartRow
    \/ TimeInit
    \/ ReadKey
    \/ ReadDot
    \/ WriteKey
    \/ WriteDot
    \/ PrintRow
    \/ Rerun

Spec == Init /\ [][Next]_vars

----------------------------------------------------------------------------
(* Vocabulary of the properties *)

\* The operation order the report is specified to have.
FixedOrder == << "init", "read_k", "read_d", "write_k", "write_d" >>

OpPos(op) == CHOOSE k \in 1..Len(FixedOrder) : FixedOrder[k] = op

Entry(n) == CHOOSE i \in 1..Len(libs) : libs[i].name = n

HasRow(n) == \E i \in 1..Len(rows) : rows[i].name = n

RowNames(rs) == [i \in 1..Len(rs) |-> rs[i].name]

RegistryNames == [i \in 1..Len(libs) |-> libs[i].name]

Importable(n) == n = "dict" \/ n \in avail

\* Does the environment make the timed statement of op of n raise?
Raises(n, op) ==
    fault.lib = n /\ (fault.site = op \/ (op = "init" /\ fault.site = "ctor"))

KeyFlag(n) == libs[Entry(n)].key

DotFlag(n) == libs[Entry(n)].dot

Flag(n, op) ==
    IF op \in {"read_k", "write_k"} THEN KeyFlag(n)
    ELSE IF op \in {"read_d", "write_d"} THEN DotFlag(n)
    ELSE TRUE

\* Which cells of a report are N/A.
Pattern(rs) ==
    [i \in 1..Len(rs) |->
        [name |-> rs[i].name,
         na |-> [k \in 1..Len(rs[i].cells) |-> rs[i].cells[k] = "N/A"]]]

Finished == pc \in {"done", "crashed"}

----------------------------------------------------------------------------
(* C1 *)

\* C1, as stated: whatever the timed statement raises, run() returns None
\* to its caller and nothing propagates.
C1_RunNeverPropagates ==
    last.outcome \in {"exc", "base"} =>
        (~last.raised /\ last.ret = None /\ pc # "crashed")

\* C1, amended: when compiling or executing the statement raises an instance
\* of Exception, run() returns None, the cell of that operation stays None
\* and the loop body goes on with the next operation.
C1_RunSwallowsException ==
    /\ [](last.outcome = "exc" =>
            (~last.raised /\ last.ret = None /\ pc # "crashed"))
    /\ [][(last' # last /\ last'.outcome = "exc") =>
            (/\ results'[last'.op] = None
             /\ pc' = "loop"
             /\ step' = step + 1)]_vars

C1_Witness ==
    /\ last.outcome = "exc"
    /\ pc = "loop"
    /\ step = OpPos(last.op) + 1
    /\ results[last.op] = None

----------------------------------------------------------------------------
(* C2 *)

\* C2: a library whose construction, read or write raises an exception does
\* not end the run: the script completes and prints the row of every other
\* active implementation.
C2_NoLibraryFatal ==
    (fault # NoFault /\ fault.kind = "exc" /\ "Attrs" \in avail) =>
        /\ pc # "crashed"
        /\ pc = "done" =>
              \A n \in Names : (Importable(n) /\ n # fault.lib) => HasRow(n)

----------------------------------------------------------------------------
(* C3 *)

\* C3: an importable implementation whose constructor always raises gets a
\* row whose five cells are all N/A.
C3_CtorRaisesRowAllNA ==
    (fault.site = "ctor" /\ "Attrs" \in avail /\ Finished) =>
        \E i \in 1..Len(rows) :
            /\ rows[i].name = fault.lib
            /\ rows[i].cells = << "N/A", "N/A", "N/A", "N/A", "N/A" >>

----------------------------------------------------------------------------
(* C4 *)

\* C4: whichever optional libraries are missing, the script completes and
\* prints exactly the rows of the importable implementations, in registry
\* order.
C4_MissingLibsOmitted ==
    fault = NoFault =>
        /\ pc # "crashed"
        /\ pc = "done" => RowNames(rows) = SelectSeq(RegistryNames, Importable)

----------------------------------------------------------------------------
(* C5 *)

\* C5: run() is never called for an operation whose capability flag is
\* false, and the cells of such operations are N/A in every printed row.
C5_UnsupportedNotApplicable ==
    /\ last # NoCall => Flag(last.name, last.op)
    /\ \A i \in 1..Len(rows) : \A k \in 1..Len(FixedOrder) :
          ~Flag(rows[i].name, FixedOrder[k]) => rows[i].cells[k] = "N/A"

C5_Witness ==
    /\ pc = "done"
    /\ \E i \in 1..Len(rows) :
          /\ rows[i].name = "Attrs"
          /\ rows[i].cells[1] # "N/A"
          /\ rows[i].cells[3] # "N/A"
          /\ rows[i].cells[2] = "N/A"
    /\ \E i \in 1..Len(rows) :
          /\ rows[i].name = "TreeDict"
          /\ rows[i].cells[2] # "N/A"
          /\ rows[i].cells[5] = "N/A"

----------------------------------------------------------------------------
(* C6 *)

----------------------------------------------------------------------------
(* C7 *)

\* C7: a timed read of the long-lived instance observes 100; once the key
\* write has been measured, and until the dot write is, the leaf of that
\* instance is 200.
C7_ReadBeforeWrite ==
    /\ (last.op \in {"read_k", "read_d"} /\ last.outcome = "ok") =>
          last.seen = 100
    /\ (last.op = "write_k" /\ last.outcome = "ok") =>
          leaf[instances[last.name]] = 200

C7_Witness ==
    /\ last.op = "write_k"
    /\ last.outcome = "ok"
    /\ results.read_k # None
    /\ results.read_d # None
    /\ leaf[instances[last.name]] = 200

----------------------------------------------------------------------------
(* C8 *)

----------------------------------------------------------------------------
(* C9 *)

\* C9: in every printed row, Init and every operation whose flag is true
\* and whose statement does not raise has a number (zero or more) in its
\* cell, never N/A; the dict row has Init, ReadKey and WriteKey present and
\* ReadDot and WriteDot N/A.
C9_ApplicablePresent ==
    /\ last.outcome = "ok" => (last.ret # None /\ last.ret >= 0)
    /\ \A i \in 1..Len(rows) : \A k \in 1..Len(FixedOrder) :
          (Flag(rows[i].name, FixedOrder[k]) /\ ~Raises(rows[i].name, FixedOrder[k]))
              => rows[i].cells[k] # "N/A"
    /\ \A i \in 1..Len(rows) :
          rows[i].name = "dict" =>
              /\ rows[i].cells[1] # "N/A"
              /\ rows[i].cells[2] # "N/A"
              /\ rows[i].cells[4] # "N/A"
              /\ rows[i].cells[3] = "N/A"
              /\ rows[i].cells[5] = "N/A"

C9_Witness ==
    /\ tick = 0
    /\ \E i \in 1..Len(rows) :
          /\ rows[i].name = "dict"
          /\ rows[i].cells = << "0.00000", "0.00000", "N/A", "0.00000", "N/A" >>

----------------------------------------------------------------------------
(* C10 *)

\* C10: a second execution in the same environment prints the same rows in
\* the same order with the same cells N/A.
C10_SameReportShape ==
    (runNo = "second" /\ Finished) => Pattern(rows) = Pattern(report1)

C10_Witness ==
    /\ runNo = "second"
    /\ pc = "done"
    /\ Len(rows) = Len(libs)
    /\ rows # report1
    /\ fault # NoFault

====
